---------------------------- MODULE Spec2Model ----------------------------
(***************************************************************************)
(* Segmentation-map core of semantic_segmentation: SegmapManager           *)
(* (segmap_manager.py) and the helpers of utils.py.                        *)
(*                                                                         *)
(* Every operation of the package is a stateless function, so the state    *)
(* machine is the call itself: pc says whether the call is pending or has  *)
(* returned, args holds the arguments and ret the returned value or the    *)
(* raised exception.  Each operation has its own specification, whose Init *)
(* draws the arguments from bounded sets.                                  *)
(*                                                                         *)
(* Numbers.  Image sizes, scales and class ids are integers.  A sub-pixel  *)
(* coordinate is a rational num/den kept as its numerator over a common    *)
(* denominator (the scale a bbox was divided by).                          *)
(***************************************************************************)
EXTENDS Integers, Sequences, FiniteSets, TLC

VARIABLES pc, args, ret

vars == <<pc, args, ret>>

(***************************************************************************)
(* Bounds of the model.                                                    *)
(***************************************************************************)
\* largest image side, side multiple and cap of the rescaler's inputs
MaxSide == 7
MaxMultiple == 4

(***************************************************************************)
(* Arithmetic helpers.                                                     *)
(***************************************************************************)
Max(a, b) == IF a >= b THEN a ELSE b
Min(a, b) == IF a <= b THEN a ELSE b
Abs(a) == IF a >= 0 THEN a ELSE -a

\* math.floor(n/d) and math.ceil(n/d) for d > 0 (\div rounds towards -infinity)
Floor(n, d) == n \div d
Ceil(n, d) == -((-n) \div d)

\* Python 3 round() of the exact rational n/d, n >= 0, d > 0: to nearest, ties
\* to the even integer.
RoundHalfEven(n, d) ==
    LET q == n \div d
        r == n % d
    IN  IF 2 * r < d THEN q
        ELSE IF 2 * r > d THEN q + 1
        ELSE IF q % 2 = 0 THEN q ELSE q + 1

\* round(side / side_multiple): one correctly rounded float division; a tie
\* k + 0.5 is a float, so the result is the half-even rounding of the rational.
RoundQuotient(side, side_multiple) == {RoundHalfEven(side, side_multiple)}

\* round(side * downscale / side_multiple) with downscale = max_side / longer
\* computed in floats: three rounded operations.  Away from a tie the float
\* error cannot change the result; at an exact tie k + 0.5 of the rational
\* side*max_side / (longer*side_multiple) the float lands on either side
\* (11 * (15 / 22) / 1 gives 7, not 8), so both neighbours are outcomes.
RoundDownscaled(side, max_side, longer, side_multiple) ==
    LET n == side * max_side
        d == longer * side_multiple
        q == n \div d
    IN  IF 2 * (n % d) = d THEN {q, q + 1} ELSE {RoundHalfEven(n, d)}

(***************************************************************************)
(* SegmapManager._rescale_image_and_markup                                 *)
(***************************************************************************)
\* Variant: the shorter side is not floored to one multiple.
NewSidesNoFloor(w, h, side_multiple, max_side) ==
    IF Max(w, h) > max_side
    THEN IF w > h
         THEN {<<max_side, r * side_multiple>> :
                 r \in RoundDownscaled(h, max_side, Max(h, w), side_multiple)}
         ELSE {<<r * side_multiple, max_side>> :
                 r \in RoundDownscaled(w, max_side, Max(h, w), side_multiple)}
    ELSE {<<rw * side_multiple, rh * side_multiple>> :
            rw \in RoundQuotient(w, side_multiple),
            rh \in RoundQuotient(h, side_multiple)}

\* The set of (new_w, new_h) the code can compute.
NewSides(w, h, side_multiple, max_side) ==
    IF Max(w, h) > max_side
    THEN IF w > h
         THEN {<<max_side, Max(1, r) * side_multiple>> :
                 r \in RoundDownscaled(h, max_side, Max(h, w), side_multiple)}
         ELSE {<<Max(1, r) * side_multiple, max_side>> :
                 r \in RoundDownscaled(w, max_side, Max(h, w), side_multiple)}
    ELSE {<<Max(1, rw) * side_multiple, Max(1, rh) * side_multiple>> :
            rw \in RoundQuotient(w, side_multiple),
            rh \in RoundQuotient(h, side_multiple)}

\* m.bbox reshaped to points and multiplied by (new_w / w, new_h / h): every
\* coordinate becomes the rational <<numerator, denominator>>.
ScaleBbox(bbox, new_w, new_h, w, h) ==
    [i \in 1..Len(bbox) |->
        IF i % 2 = 1 THEN <<bbox[i] * new_w, w>> ELSE <<bbox[i] * new_h, h>>]

RescaleMarkups == {<<>>, << <<0, 0, 1, 0, 1, 1, 0, 1>> >>}

InitRescale ==
    /\ pc = "call"
    /\ args \in [w : 1..MaxSide, h : 1..MaxSide,
                 side_multiple : 1..MaxMultiple, max_side : 1..MaxSide,
                 markup : RescaleMarkups]
    /\ ret = [status |-> "pending"]

rescale_image_and_markup ==
    /\ pc = "call"
    /\ \E s \in NewSides(args.w, args.h, args.side_multiple, args.max_side) :
          ret' = [status |-> "ok",
                  new_w |-> s[1],
                  new_h |-> s[2],
                  markup |-> IF args.markup = <<>>
                             THEN args.markup
                             ELSE [k \in 1..Len(args.markup) |->
                                     ScaleBbox(args.markup[k], s[1], s[2],
                                               args.w, args.h)]]
    /\ pc' = "done"
    /\ UNCHANGED args

NextRescale == rescale_image_and_markup

SpecRescale == InitRescale /\ [][NextRescale]_vars

\* C1 (as stated): for any positive w, h, side multiple m and cap M the computed
\* (W, H) satisfy W % m = 0, H % m = 0, max(W, H) <= M, W >= m and H >= m.
RescaleContract ==
    /\ ret.new_w % args.side_multiple = 0
    /\ ret.new_h % args.side_multiple = 0
    /\ Max(ret.new_w, ret.new_h) <= args.max_side
    /\ ret.new_w >= args.side_multiple
    /\ ret.new_h >= args.side_multiple

C1_AnyCap == pc = "done" => RescaleContract

\* C1 (amended): the same, for a cap M that is a positive multiple of m.
C1_CapMultiple ==
    (pc = "done" /\ args.max_side % args.side_multiple = 0) => RescaleContract

\* C1 witness: a downscaled image whose shorter side needed the floor to one
\* multiple, under a cap that is a multiple of m.
C1_Witness ==
    /\ pc = "done"
    /\ args.max_side % args.side_multiple = 0
    /\ args.side_multiple > 1
    /\ Max(args.w, args.h) > args.max_side
    /\ Min(ret.new_w, ret.new_h) = args.side_multiple
    /\ 2 * Min(args.w, args.h) * args.max_side
         < Max(args.w, args.h) * args.side_multiple


(***************************************************************************)
(* SegmapManager._proper_round                                             *)
(*                                                                         *)
(* markup_bbox is the flat sequence x1, y1, x2, y2, ... of numerators over *)
(* the common denominator den.  The final astype(np.int32) is the identity *)
(* on the small integers of the model.                                     *)
(***************************************************************************)
\* largest coordinate numerator and denominator of the rounding inputs, and the
\* side of the grid of half-integer points the convex quadrilaterals are drawn from
MaxNum == 2
MaxDen == 3
GridSide == 4

\* np.array(x).astype(np.int32) of the float n/d: the fraction is dropped, i.e.
\* rounding towards zero.
AsInt32(n, d) == IF n >= 0 THEN n \div d ELSE -((-n) \div d)

\* xs = markup_bbox[::2], ys = markup_bbox[1::2]
EvenSlice(markup_bbox) == [i \in 1..(Len(markup_bbox) \div 2) |-> markup_bbox[2 * i - 1]]
OddSlice(markup_bbox) == [i \in 1..(Len(markup_bbox) \div 2) |-> markup_bbox[2 * i]]

\* sum(1 for _x in xs if _x > x)
NGreater(xs, x) == Cardinality({j \in 1..Len(xs) : xs[j] > x})

\* Variants: the threshold on n_greater off by one, either way.
RoundCoordAtLeastOne(x, n_greater, den) ==
    IF n_greater > 0 THEN Floor(x, den) ELSE Ceil(x, den)
RoundCoordMoreThanTwo(x, n_greater, den) ==
    IF n_greater > 2 THEN Floor(x, den) ELSE Ceil(x, den)

\* math.floor(x) if n_greater > 1 else math.ceil(x)
RoundCoord(x, n_greater, den) ==
    IF n_greater > 1 THEN Floor(x, den) ELSE Ceil(x, den)

\* np.ravel(list(zip(xs, ys)))
Interleave(xs, ys) ==
    [i \in 1..(2 * Len(xs)) |-> IF i % 2 = 1 THEN xs[(i + 1) \div 2] ELSE ys[i \div 2]]

proper_round_value(markup_bbox, den) ==
    IF Len(markup_bbox) # 8
    THEN [i \in 1..Len(markup_bbox) |-> AsInt32(markup_bbox[i], den)]
    ELSE LET xs == EvenSlice(markup_bbox)
             ys == OddSlice(markup_bbox)
         IN  Interleave(
                 [i \in 1..4 |-> RoundCoord(xs[i], NGreater(xs, xs[i]), den)],
                 [i \in 1..4 |-> RoundCoord(ys[i], NGreater(ys, ys[i]), den)])

RoundNums == (-1)..MaxNum
RoundDens == 2..MaxDen
RoundLengths == {6, 8}

InitRound ==
    /\ pc = "call"
    /\ \E n \in RoundLengths :
          args \in [markup_bbox : [1..n -> RoundNums], den : RoundDens]
    /\ ret = [status |-> "pending"]

proper_round ==
    /\ pc = "call"
    /\ ret' = [status |-> "ok",
               bbox |-> proper_round_value(args.markup_bbox, args.den)]
    /\ pc' = "done"
    /\ UNCHANGED args

NextRound == proper_round

SpecRound == InitRound /\ [][NextRound]_vars

\* Strictly more than one of the other three vertices lies strictly above
\* vertex i on the axis whose coordinates are vals.
TwoOthersGreater(vals, i) ==
    \E j, k \in (1..4) \ {i} : j # k /\ vals[j] > vals[i] /\ vals[k] > vals[i]

\* One other vertex greater, one lesser, one equal.
TiePattern(vals, i) ==
    \E j, k, l \in (1..4) \ {i} :
        /\ j # k /\ j # l /\ k # l
        /\ vals[j] > vals[i] /\ vals[k] < vals[i] /\ vals[l] = vals[i]

AxisRule(vals, out, den) ==
    \A i \in 1..4 :
        /\ TwoOthersGreater(vals, i) => out[i] = Floor(vals[i], den)
        /\ ~TwoOthersGreater(vals, i) => out[i] = Ceil(vals[i], den)
        /\ TiePattern(vals, i) => out[i] = Ceil(vals[i], den)

\* C3: for a 4-vertex input each axis is rounded on its own; a coordinate is
\* floored exactly when more than one of the other three vertices is strictly
\* greater on that axis and ceiled otherwise, the 1-greater/1-less/1-equal tie
\* included.
C3_RoundingRule ==
    (pc = "done" /\ Len(args.markup_bbox) = 8) =>
        /\ Len(ret.bbox) = 8
        /\ AxisRule(EvenSlice(args.markup_bbox), EvenSlice(ret.bbox), args.den)
        /\ AxisRule(OddSlice(args.markup_bbox), OddSlice(ret.bbox), args.den)

\* C3 witness: a rounded 4-vertex input with a fractional x in the tie pattern
\* (ceiled) and a fractional y with two greater neighbours (floored).
C3_Witness ==
    /\ pc = "done"
    /\ Len(args.markup_bbox) = 8
    /\ \E i \in 1..4 :
          /\ TiePattern(EvenSlice(args.markup_bbox), i)
          /\ args.markup_bbox[2 * i - 1] % args.den # 0
          /\ ret.bbox[2 * i - 1] * args.den > args.markup_bbox[2 * i - 1]
    /\ \E i \in 1..4 :
          /\ TwoOthersGreater(OddSlice(args.markup_bbox), i)
          /\ args.markup_bbox[2 * i] % args.den # 0
          /\ ret.bbox[2 * i] * args.den < args.markup_bbox[2 * i]

\* C7 (as stated): for a coordinate sequence of length other than 8 the result
\* has the same length and every coordinate is the nearest integer to the input
\* coordinate.
C7_NearestInteger ==
    (pc = "done" /\ Len(args.markup_bbox) # 8) =>
        /\ Len(ret.bbox) = Len(args.markup_bbox)
        /\ \A i \in 1..Len(args.markup_bbox) :
              2 * Abs(ret.bbox[i] * args.den - args.markup_bbox[i]) <= args.den

(***************************************************************************)
(* Polygons on the pixel grid.  A polygon is a flat integer sequence       *)
(* x1, y1, ..., xn, yn; a pixel is the lattice point <<x, y>>.             *)
(***************************************************************************)
NVertices(poly) == Len(poly) \div 2
Vertex(poly, i) == <<poly[2 * i - 1], poly[2 * i]>>
Succ(poly, i) == Vertex(poly, (i % NVertices(poly)) + 1)

Cross(o, a, b) == (a[1] - o[1]) * (b[2] - o[2]) - (a[2] - o[2]) * (b[1] - o[1])

OnSegment(a, b, q) ==
    /\ Cross(a, b, q) = 0
    /\ Min(a[1], b[1]) <= q[1] /\ q[1] <= Max(a[1], b[1])
    /\ Min(a[2], b[2]) <= q[2] /\ q[2] <= Max(a[2], b[2])

\* The edge a-b crosses the horizontal ray from q towards +x.
CrossesRay(a, b, q) ==
    /\ (a[2] > q[2]) # (b[2] > q[2])
    /\ LET t == (a[1] - q[1]) * (b[2] - a[2]) + (q[2] - a[2]) * (b[1] - a[1])
       IN  IF b[2] > a[2] THEN t > 0 ELSE t < 0

\* draw.polygon(xy, fill=...): the pixels whose centre lies on an edge or inside
\* the polygon by the even-odd rule of the scanline fill.
PolygonCovers(poly, q) ==
    \/ \E i \in 1..NVertices(poly) : OnSegment(Vertex(poly, i), Succ(poly, i), q)
    \/ Cardinality({i \in 1..NVertices(poly) :
                      CrossesRay(Vertex(poly, i), Succ(poly, i), q)}) % 2 = 1

SeqMin(vals) == CHOOSE v \in {vals[i] : i \in 1..Len(vals)} :
                    \A i \in 1..Len(vals) : v <= vals[i]
SeqMax(vals) == CHOOSE v \in {vals[i] : i \in 1..Len(vals)} :
                    \A i \in 1..Len(vals) : v >= vals[i]

\* The pixels a polygon covers on an unbounded raster.
Coverage(poly) ==
    {q \in (SeqMin(EvenSlice(poly))..SeqMax(EvenSlice(poly)))
             \X (SeqMin(OddSlice(poly))..SeqMax(OddSlice(poly))) :
        PolygonCovers(poly, q)}

(***************************************************************************)
(* _proper_round on quadrilaterals with half-integer vertices              *)
(***************************************************************************)
HalfPoints == {<<2 * i + 1, 2 * j + 1>> : i, j \in 0..(GridSide - 1)}

Flatten(pts) == [i \in 1..(2 * Len(pts)) |-> pts[(i + 1) \div 2][2 - (i % 2)]]

InitHalfQuad ==
    /\ pc = "call"
    /\ \E pts \in [1..4 -> HalfPoints] :
          args = [markup_bbox |-> Flatten(pts), den |-> 2]
    /\ ret = [status |-> "pending"]

SpecHalfQuad == InitHalfQuad /\ [][NextRound]_vars

\* The four vertices are in strictly convex position, in either orientation.
StrictlyConvex(poly) ==
    \/ \A i \in 1..4 : Cross(Vertex(poly, i), Succ(poly, i),
                             Succ(poly, (i % 4) + 1)) > 0
    \/ \A i \in 1..4 : Cross(Vertex(poly, i), Succ(poly, i),
                             Succ(poly, (i % 4) + 1)) < 0

FloorAll(markup_bbox, den) == [i \in 1..Len(markup_bbox) |-> Floor(markup_bbox[i], den)]
CeilAll(markup_bbox, den) == [i \in 1..Len(markup_bbox) |-> Ceil(markup_bbox[i], den)]

\* On the axis vals no extreme vertex moved inward: the rounded extent reaches
\* the floor of the least and the ceiling of the greatest coordinate.
ExtentKept(vals, out, den) ==
    /\ SeqMin(out) = Floor(SeqMin(vals), den)
    /\ SeqMax(out) = Ceil(SeqMax(vals), den)
    /\ \A i \in 1..4 : vals[i] = SeqMin(vals) => out[i] = Floor(vals[i], den)
    /\ \A i \in 1..4 : vals[i] = SeqMax(vals) => out[i] = Ceil(vals[i], den)

\* C4: for a convex quadrilateral with half-integer vertices the rounded polygon
\* moves no extreme vertex inward on either axis, and covers at least as many
\* pixels as the same vertices all floored and as the same vertices all ceiled.
C4_CoverageKept ==
    (pc = "done" /\ StrictlyConvex(args.markup_bbox)) =>
        /\ ExtentKept(EvenSlice(args.markup_bbox), EvenSlice(ret.bbox), args.den)
        /\ ExtentKept(OddSlice(args.markup_bbox), OddSlice(ret.bbox), args.den)
        /\ Cardinality(Coverage(ret.bbox))
             >= Cardinality(Coverage(FloorAll(args.markup_bbox, args.den)))
        /\ Cardinality(Coverage(ret.bbox))
             >= Cardinality(Coverage(CeilAll(args.markup_bbox, args.den)))

\* C4 witness: a rounded convex quadrilateral that is not axis-parallel, with
\* some vertices floored and some ceiled, covering strictly more pixels than
\* both naive roundings.
C4_Witness ==
    /\ pc = "done"
    /\ StrictlyConvex(args.markup_bbox)
    /\ Cardinality({args.markup_bbox[2 * i - 1] : i \in 1..4}) = 4
    /\ ret.bbox # FloorAll(args.markup_bbox, args.den)
    /\ ret.bbox # CeilAll(args.markup_bbox, args.den)
    /\ Cardinality(Coverage(ret.bbox))
         > Cardinality(Coverage(FloorAll(args.markup_bbox, args.den)))
    /\ Cardinality(Coverage(ret.bbox))
         > Cardinality(Coverage(CeilAll(args.markup_bbox, args.den)))

(***************************************************************************)
(* SegmapManager.build_segmentation_map                                    *)
(*                                                                         *)
(* A markup object is [kind, bbox] (ObjectMarkup) or [kind, bbox,          *)
(* object_type] (ClassifiedObjectMarkup).  A raster is a function from the *)
(* pixels (0..W-1) \X (0..H-1) to 0..255.                                  *)
(***************************************************************************)
\* largest image side, scale and markup length of the builder's inputs
MaxDim == 4
MaxScale == 2
MaxObjects == 2

IsClassified(object_markup) == object_markup.kind = "ClassifiedObjectMarkup"

Pixels(size) == (0..(size[1] - 1)) \X (0..(size[2] - 1))

\* Image.new(mode='L', size=size, color=0)
NewImage(size) == [q \in Pixels(size) |-> 0]

\* Variant: only the width is checked against the scale.
ScaleDividesWidth(w, h, scale) == w % scale = 0

\* assert w % scale == 0 and h % scale == 0
ScaleDivides(w, h, scale) == w % scale = 0 /\ h % scale = 0

\* object_markup.object_type + 1 if classified else 1, or 255 when drawing
FillColor(object_markup, for_drawing) ==
    IF for_drawing THEN 255
    ELSE IF IsClassified(object_markup) THEN object_markup.object_type + 1
    ELSE 1

\* Variant: a pixel already painted keeps its value.
DrawPolygonKeepFirst(image_segmap, drawn_bbox, fill_color) ==
    [q \in DOMAIN image_segmap |->
        IF PolygonCovers(drawn_bbox, q) /\ image_segmap[q] = 0
        THEN fill_color ELSE image_segmap[q]]

\* draw.polygon(drawn_bbox.tolist(), fill=fill_color) on the raster
DrawPolygon(image_segmap, drawn_bbox, fill_color) ==
    [q \in DOMAIN image_segmap |->
        IF PolygonCovers(drawn_bbox, q) THEN fill_color ELSE image_segmap[q]]

\* The loop over markup from object k on; an assertion failure ends the call.
RECURSIVE DrawMarkup(_, _, _, _, _)
DrawMarkup(image_segmap, markup, k, scale, for_drawing) ==
    IF k > Len(markup)
    THEN [status |-> "ok", pixels |-> image_segmap]
    ELSE IF ~for_drawing /\ FillColor(markup[k], for_drawing) > 255
    THEN [status |-> "AssertionError",
          message |-> "No more than 255 classes are supported"]
    ELSE DrawMarkup(DrawPolygon(image_segmap,
                                proper_round_value(markup[k].bbox, scale),
                                FillColor(markup[k], for_drawing)),
                    markup, k + 1, scale, for_drawing)

build_segmentation_map_value(w, h, markup, scale, for_drawing) ==
    IF ~ScaleDivides(w, h, scale)
    THEN [status |-> "AssertionError", message |-> ""]
    ELSE LET size == <<w \div scale, h \div scale>>
             drawn == DrawMarkup(NewImage(size), markup, 1, scale, for_drawing)
         IN  IF drawn.status = "ok"
             THEN [status |-> "ok", size |-> size, pixels |-> drawn.pixels]
             ELSE drawn

\* Shapes in image coordinates: two overlapping rectangles, a diamond and a
\* triangle (a polygon that is not a quadrilateral).
BuildBboxes ==
    { <<0, 0, 2, 0, 2, 2, 0, 2>>,
      <<1, 1, 3, 1, 3, 3, 1, 3>>,
      <<2, 0, 4, 2, 2, 4, 0, 2>>,
      <<0, 0, 3, 0, 0, 3>> }

\* Class ids: two representable ones and the first that is not.
BuildObjectTypes == {0, 1, 255}

BuildObjects ==
    {[kind |-> "ObjectMarkup", bbox |-> b] : b \in BuildBboxes}
    \cup {[kind |-> "ClassifiedObjectMarkup", bbox |-> b, object_type |-> t] :
            b \in BuildBboxes, t \in BuildObjectTypes}

SeqsUpTo(S, n) == UNION {[1..k -> S] : k \in 0..n}

InitBuild ==
    /\ pc = "call"
    /\ args \in [w : 1..MaxDim, h : 1..MaxDim, scale : 1..MaxScale,
                 markup : SeqsUpTo(BuildObjects, MaxObjects),
                 for_drawing : BOOLEAN]
    /\ ret = [status |-> "pending"]

build_segmentation_map ==
    /\ pc = "call"
    /\ ret' = build_segmentation_map_value(args.w, args.h, args.markup,
                                           args.scale, args.for_drawing)
    /\ pc' = "done"
    /\ UNCHANGED args

NextBuild == build_segmentation_map

SpecBuild == InitBuild /\ [][NextBuild]_vars

\* The markup respects the data model: every class id + 1 fits a pixel.
ClassIdsFit(markup) ==
    \A k \in 1..Len(markup) :
        IsClassified(markup[k]) => markup[k].object_type + 1 <= 255

\* C2: when scale does not divide both w and h the call fails with a
\* precondition error and returns no map; when it divides both (and the class
\* ids fit a pixel) the raster has size exactly (w/scale, h/scale).
C2_ScalePrecondition ==
    pc = "done" =>
        /\ (args.w % args.scale # 0 \/ args.h % args.scale # 0) =>
              /\ ret.status = "AssertionError"
              /\ "pixels" \notin DOMAIN ret
        /\ (args.w % args.scale = 0 /\ args.h % args.scale = 0
              /\ (args.for_drawing \/ ClassIdsFit(args.markup))) =>
              /\ ret.status = "ok"
              /\ ret.size[1] * args.scale = args.w
              /\ ret.size[2] * args.scale = args.h
              /\ DOMAIN ret.pixels = Pixels(ret.size)

\* C2 witness: a call rejected because only the height is not divisible.
C2_Witness ==
    /\ pc = "done"
    /\ args.w % args.scale = 0
    /\ args.h % args.scale # 0
    /\ args.markup # <<>>
    /\ ret.status = "AssertionError"

\* The fill value the claim names for an object.
ClaimedFill(object_markup, for_drawing) ==
    CASE for_drawing -> 255
      [] ~for_drawing /\ object_markup.kind = "ObjectMarkup" -> 1
      [] OTHER -> object_markup.object_type + 1

\* The objects whose rounded polygon covers pixel q.
Covering(markup, scale, q) ==
    {k \in 1..Len(markup) :
        PolygonCovers(proper_round_value(markup[k].bbox, scale), q)}

SetMax(S) == CHOOSE m \in S : \A k \in S : m >= k

\* C5: after a successful build every pixel holds 0 if no object's rounded
\* polygon covers it, and otherwise the fill value of the last object in input
\* order that covers it.
C5_LastObjectWins ==
    (pc = "done" /\ ret.status = "ok") =>
        \A q \in DOMAIN ret.pixels :
            LET covering == Covering(args.markup, args.scale, q)
            IN  ret.pixels[q] =
                  IF covering = {} THEN 0
                  ELSE ClaimedFill(args.markup[SetMax(covering)], args.for_drawing)

\* C5 witness: a built map with a pixel covered by two objects of different
\* fill values, the later one smaller, and a pixel covered by none.
C5_Witness ==
    /\ pc = "done"
    /\ ret.status = "ok"
    /\ ~args.for_drawing
    /\ args.scale > 1
    /\ Len(args.markup) = 2
    /\ \E q \in DOMAIN ret.pixels :
          /\ Covering(args.markup, args.scale, q) = {1, 2}
          /\ ClaimedFill(args.markup[1], FALSE) > ClaimedFill(args.markup[2], FALSE)
          /\ ret.pixels[q] = ClaimedFill(args.markup[2], FALSE)
    /\ \E q \in DOMAIN ret.pixels : Covering(args.markup, args.scale, q) = {}

(***************************************************************************)
(* utils.fix_quadrangle                                                    *)
(*                                                                         *)
(* quad is a sequence of 4 points <<x, y>>.  Polygon(quad) closes the ring *)
(* quad[1], ..., quad[4], quad[1].                                         *)
(***************************************************************************)
\* largest coordinate of the quadrangle's points
MaxCoord == 2

\* The ring without its repeated consecutive points (the closing one included).
RECURSIVE Dedup(_)
Dedup(pts) ==
    IF Len(pts) <= 1 THEN pts
    ELSE IF pts[Len(pts)] = pts[1] THEN Dedup(SubSeq(pts, 1, Len(pts) - 1))
    ELSE IF \E i \in 1..(Len(pts) - 1) : pts[i] = pts[i + 1]
    THEN LET i == CHOOSE j \in 1..(Len(pts) - 1) : pts[j] = pts[j + 1]
         IN  Dedup(SubSeq(pts, 1, i) \o SubSeq(pts, i + 2, Len(pts)))
    ELSE pts

Sign(v) == IF v > 0 THEN 1 ELSE IF v < 0 THEN -1 ELSE 0

\* The closed segments a-b and c-d have a common point.
SegmentsTouch(a, b, c, d) ==
    \/ /\ Sign(Cross(a, b, c)) * Sign(Cross(a, b, d)) < 0
       /\ Sign(Cross(c, d, a)) * Sign(Cross(c, d, b)) < 0
    \/ OnSegment(a, b, c) \/ OnSegment(a, b, d)
    \/ OnSegment(c, d, a) \/ OnSegment(c, d, b)

\* The consecutive edges p-q and q-r run back over each other.
FoldsBack(p, q, r) ==
    /\ Cross(p, q, r) = 0
    /\ (p[1] - q[1]) * (r[1] - q[1]) + (p[2] - q[2]) * (r[2] - q[2]) > 0

\* Polygon(quad).is_valid: the ring has at least three distinct corners, no edge
\* folds back over its neighbour, and edges that are not neighbours do not meet.
IsValidPolygon(quad) ==
    LET ring == Dedup(quad)
        n == Len(ring)
        At(i) == ring[((i - 1) % n) + 1]
    IN  /\ n >= 3
        /\ \A i \in 1..n : ~FoldsBack(At(i), At(i + 1), At(i + 2))
        /\ \A i, j \in 1..n :
              (j > i + 1 /\ ~(i = 1 /\ j = n)) =>
                  ~SegmentsTouch(At(i), At(i + 1), At(j), At(j + 1))

PointSet(quad) == {quad[i] : i \in 1..Len(quad)}

Collinear(S) == \A a, b, c \in S : Cross(a, b, c) = 0

InTriangle(a, b, c, p) ==
    /\ Cross(a, b, c) # 0
    /\ Sign(Cross(a, b, p)) * Sign(Cross(a, b, c)) >= 0
    /\ Sign(Cross(b, c, p)) * Sign(Cross(b, c, a)) >= 0
    /\ Sign(Cross(c, a, p)) * Sign(Cross(c, a, b)) >= 0

\* The corners of the convex hull of a point set that is not collinear.
HullVertices(S) ==
    {p \in S :
        /\ \A a, b \in S \ {p} : ~OnSegment(a, b, p)
        /\ \A a, b, c \in S \ {p} : ~InTriangle(a, b, c, p)}

\* MultiPoint(quad).convex_hull.exterior.coords: the closed rings around the
\* hull's corners.  The start and the orientation are the library's choice, so
\* every rotation in both orientations is an outcome.
HullRings(S) ==
    LET V == HullVertices(S)
        n == Cardinality(V)
    IN  {r \in [1..(n + 1) -> V] :
            /\ r[n + 1] = r[1]
            /\ \A i, j \in 1..n : i # j => r[i] # r[j]
            /\ \/ \A i \in 1..n : Cross(r[i], r[i + 1], r[(i % n) + 2]) > 0
               \/ \A i \in 1..n : Cross(r[i], r[i + 1], r[(i % n) + 2]) < 0}

\* The returned value, or the exception raised: the hull of collinear points is
\* a LineString or a Point, which has no exterior.
fix_quadrangle_values(quad) ==
    IF IsValidPolygon(quad)
    THEN {[status |-> "ok", quad |-> quad, logged |-> FALSE]}
    ELSE IF Collinear(PointSet(quad))
    THEN {[status |-> "AttributeError", logged |-> TRUE]}
    ELSE {[status |-> "ok", quad |-> SubSeq(r, 1, 4), logged |-> TRUE] :
            r \in HullRings(PointSet(quad))}

QuadPoints == (0..MaxCoord) \X (0..MaxCoord)

InitFix ==
    /\ pc = "call"
    /\ args \in [quad : [1..4 -> QuadPoints]]
    /\ ret = [status |-> "pending"]

fix_quadrangle ==
    /\ pc = "call"
    /\ ret' \in fix_quadrangle_values(args.quad)
    /\ pc' = "done"
    /\ UNCHANGED args

NextFix == fix_quadrangle

SpecFix == InitFix /\ [][NextFix]_vars

\* C8 (as stated): fix_quadrangle never raises for any 4 points, degenerate ones
\* included; a simple input is returned unchanged and any other is replaced by
\* the first 4 vertices of the convex hull, so the result is always a valid
\* 4-point polygon.
C8_NeverRaises ==
    pc = "done" =>
        /\ ret.status = "ok"
        /\ Len(ret.quad) = 4
        /\ IsValidPolygon(ret.quad)
        /\ IsValidPolygon(args.quad) => ret.quad = args.quad

(***************************************************************************)
(* utils.extract_bboxes_and_object_types                                   *)
(*                                                                         *)
(* net_config is [classification_supported, class_names]; get_class_name   *)
(* looks the 0-based class id up in class_names.                           *)
(***************************************************************************)
ExtractBboxes == {<<0, 0, 2, 0, 2, 2, 0, 2>>, <<1, 1, 3, 1, 3, 3, 1, 3>>}

ExtractObjects ==
    {[kind |-> "ClassifiedObjectMarkup", bbox |-> b, object_type |-> t] :
        b \in ExtractBboxes, t \in {0, 1}}

NetConfigs ==
    {[classification_supported |-> c, class_names |-> <<"text", "barcode">>] :
        c \in BOOLEAN}

ObjectTypesFormats == {"name", "id", "index", ""}

extract_bboxes_and_object_types_value(image_markup, net_config, object_types_format) ==
    LET bboxes == [k \in 1..Len(image_markup) |-> image_markup[k].bbox]
    IN  IF net_config.classification_supported
        THEN IF object_types_format = "id"
             THEN [status |-> "ok", bboxes |-> bboxes, obj_types_none |-> FALSE,
                   obj_types |-> [k \in 1..Len(image_markup) |->
                                    [id |-> image_markup[k].object_type]]]
             ELSE IF object_types_format = "name"
             THEN [status |-> "ok", bboxes |-> bboxes, obj_types_none |-> FALSE,
                   obj_types |-> [k \in 1..Len(image_markup) |->
                                    [name |-> net_config.class_names[
                                                image_markup[k].object_type + 1]]]]
             ELSE [status |-> "ValueError",
                   message |-> "Unsupported object type format"]
        ELSE [status |-> "ok", bboxes |-> bboxes, obj_types_none |-> TRUE,
              obj_types |-> <<>>]

InitExtract ==
    /\ pc = "call"
    /\ args \in [image_markup : SeqsUpTo(ExtractObjects, MaxObjects),
                 net_config : NetConfigs,
                 object_types_format : ObjectTypesFormats]
    /\ ret = [status |-> "pending"]

extract_bboxes_and_object_types ==
    /\ pc = "call"
    /\ ret' = extract_bboxes_and_object_types_value(
                  args.image_markup, args.net_config, args.object_types_format)
    /\ pc' = "done"
    /\ UNCHANGED args

NextExtract == extract_bboxes_and_object_types

SpecExtract == InitExtract /\ [][NextExtract]_vars

\* C9 (as stated): a call whose object_types_format is neither "name" nor "id"
\* is rejected with a fatal error for every net_config and every markup list,
\* and never returns a result.
C9_RejectsUnsupportedFormat ==
    (pc = "done" /\ args.object_types_format \notin {"name", "id"}) =>
        ret.status = "ValueError"

(***************************************************************************)
(* utils.get_contours_and_boxes and SegmapManager.postprocess              *)
(*                                                                         *)
(* A contour is kept as the set of pixels of its connected region.  The    *)
(* class-logit map is [none |-> TRUE] or a map giving every pixel the      *)
(* class its logit vector favours: the favoured class has one score, every *)
(* other class one lower score, the same two scores at all pixels.         *)
(***************************************************************************)
\* width and height of the rasters given to postprocess, number of classes
PostWidth == 5
PostHeight == 3
MaxClasses == 3


Neighbours4(q) ==
    {<<q[1] - 1, q[2]>>, <<q[1] + 1, q[2]>>, <<q[1], q[2] - 1>>, <<q[1], q[2] + 1>>}
Neighbours8(q) ==
    Neighbours4(q) \cup {<<q[1] - 1, q[2] - 1>>, <<q[1] + 1, q[2] - 1>>,
                         <<q[1] - 1, q[2] + 1>>, <<q[1] + 1, q[2] + 1>>}

\* The pixels of F joined to S by steps between 8-neighbours (4-neighbours),
\* grown one ring of neighbours at a time until nothing is added.
RECURSIVE Grow8(_, _)
Grow8(S, F) ==
    LET more == (F \cap UNION {Neighbours8(q) : q \in S}) \ S
    IN  IF more = {} THEN S ELSE Grow8(S \cup more, F)

RECURSIVE Grow4(_, _)
Grow4(S, F) ==
    LET more == (F \cap UNION {Neighbours4(q) : q \in S}) \ S
    IN  IF more = {} THEN S ELSE Grow4(S \cup more, F)

\* np.array(seg_map, dtype=np.uint8): findContours takes non-zero as foreground.
Foreground(seg_map) == {q \in DOMAIN seg_map : seg_map[q] % 256 # 0}

\* The 8-connected regions of F.
RECURSIVE Components(_)
Components(F) ==
    IF F = {} THEN {}
    ELSE LET C == Grow8({CHOOSE q \in F : TRUE}, F)
         IN  {C} \cup Components(F \ C)

\* A region with its holes: what the region's outer border encloses.  The
\* background outside is the part joined to the raster's frame by 4-steps.
Filled(C, size) ==
    LET bg == Pixels(size) \ C
        frame == {q \in bg : \/ q[1] \in {0, size[1] - 1}
                             \/ q[2] \in {0, size[2] - 1}}
    IN  Pixels(size) \ Grow4(frame, bg)

\* cv2.findContours(..., mode=cv2.RETR_EXTERNAL, ...): the regions that do not
\* lie in a hole of another region.
ExternalContours(seg_map, size) ==
    LET all == Components(Foreground(seg_map))
        filled == [D \in all |-> Filled(D, size)]
    IN  {C \in all : \A D \in all : D = C \/ ~(C \subseteq filled[D])}

\* The unit cells the outer border of a filled region encloses, a cell standing
\* twice when all four of its corner pixels are inside and once when exactly
\* three are: the border runs through the centres of the rim pixels and cuts a
\* cell with three corners inside along its diagonal.
EnclosedHalfCells(fill, size) ==
    {h \in ((0..(size[1] - 2)) \X (0..(size[2] - 2))) \X {1, 2} :
        LET c == h[1]
            inside == Cardinality({<<c[1], c[2]>>, <<c[1] + 1, c[2]>>,
                                   <<c[1], c[2] + 1>>, <<c[1] + 1, c[2] + 1>>}
                                  \cap fill)
        IN  inside = 4 \/ (inside = 3 /\ h[2] = 1)}

\* Twice cv2.contourArea(cnt), the area the region's outer border encloses.
ContourArea2(C, size) ==
    Cardinality(UNION {EnclosedHalfCells(fill, size) : fill \in {Filled(C, size)}})

\* Variant: a region whose area equals the threshold is kept.
IsDetectionAtLeast(C, size, min_area) == ContourArea2(C, size) >= 2 * min_area

\* cv2.contourArea(cnt) > min_area
IsDetection(C, size, min_area) == ContourArea2(C, size) > 2 * min_area

\* Variant: the box is left in the raster's coordinates.
MinAreaBoxUnscaled(C, scale) ==
    LET x0 == CHOOSE x \in {q[1] : q \in C} : \A q \in C : x <= q[1]
        x1 == CHOOSE x \in {q[1] : q \in C} : \A q \in C : x >= q[1]
        y0 == CHOOSE y \in {q[2] : q \in C} : \A q \in C : y <= q[2]
        y1 == CHOOSE y \in {q[2] : q \in C} : \A q \in C : y >= q[2]
    IN  IF {<<x0, y0>>, <<x1, y0>>, <<x0, y1>>, <<x1, y1>>} \subseteq C
        THEN [known |-> TRUE, cnt |-> C,
              points |-> <<x0, y1, x0, y0, x1, y0, x1, y1>>]
        ELSE [known |-> FALSE, cnt |-> C, points |-> <<>>]

\* np.round(cv2.boxPoints(cv2.minAreaRect(cnt)) * scale).astype(int).  When the
\* four corners of the region's bounding box belong to the region its convex
\* hull is that box, which is then the rectangle of least area (corners from
\* the bottom-left one, the order of an upright rectangle).  For any other
\* region the rectangle is rotated and is not computed: known is FALSE.
MinAreaBox(C, scale) ==
    LET x0 == CHOOSE x \in {q[1] : q \in C} : \A q \in C : x <= q[1]
        x1 == CHOOSE x \in {q[1] : q \in C} : \A q \in C : x >= q[1]
        y0 == CHOOSE y \in {q[2] : q \in C} : \A q \in C : y <= q[2]
        y1 == CHOOSE y \in {q[2] : q \in C} : \A q \in C : y >= q[2]
    IN  IF {<<x0, y0>>, <<x1, y0>>, <<x0, y1>>, <<x1, y1>>} \subseteq C
        THEN [known |-> TRUE, cnt |-> C,
              points |-> <<x0 * scale, y1 * scale, x0 * scale, y0 * scale,
                           x1 * scale, y0 * scale, x1 * scale, y1 * scale>>]
        ELSE [known |-> FALSE, cnt |-> C, points |-> <<>>]

\* The contours that pass the area filter.
Detections(seg_map, size, min_area) ==
    {C \in ExternalContours(seg_map, size) : IsDetection(C, size, min_area)}

\* The contours as a list; the order is the library's, so any order is an outcome.
Orderings(S) ==
    {f \in [1..Cardinality(S) -> S] :
        \A i, j \in 1..Cardinality(S) : i # j => f[i] # f[j]}

Classes == 0..(MaxClasses - 1)

\* cv2.drawContours(mask, [cnt], -1, 1, -1): the contour filled, holes included.
Mask(C, size) == Filled(C, size)

\* np.argmax of the mean over the mask of np_softmax(logits): the softmax gives
\* the favoured class the same higher probability at every pixel, so the mean is
\* greatest for a class favoured at the most pixels of the mask.  Between
\* classes with equally many pixels the float sums decide, so each is an outcome.
ClassIds(C, size, favoured) ==
    LET mask == Mask(C, size)
        votes == [c \in Classes |-> Cardinality({q \in mask : favoured[q] = c})]
    IN  {c \in Classes : \A d \in Classes : votes[c] >= votes[d]}

\* The returned list; cnts is the contour list it was built from.
postprocess_values(seg_map, size, seg_map_class_logits, scale, min_area_threshold) ==
    LET found == Detections(seg_map, size, min_area_threshold)
        boxes == [C \in found |-> MinAreaBox(C, scale)]
    IN  IF seg_map_class_logits.none
        THEN {[status |-> "ok", cnts |-> cnts,
               objects |-> [i \in 1..Len(cnts) |->
                              [kind |-> "ObjectMarkup", bbox |-> boxes[cnts[i]]]]] :
                cnts \in Orderings(found)}
        ELSE LET winners == [C \in found |->
                               ClassIds(C, size, seg_map_class_logits.favoured)]
             IN  {[status |-> "ok", cnts |-> cnts,
                   objects |-> [i \in 1..Len(cnts) |->
                                  [kind |-> "ClassifiedObjectMarkup",
                                   bbox |-> boxes[cnts[i]],
                                   object_type |-> class_ids[cnts[i]]]]] :
                    cnts \in Orderings(found),
                    class_ids \in {ids \in [found -> Classes] :
                                     \A C \in found : ids[C] \in winners[C]}}

PostSize == <<PostWidth, PostHeight>>

\* Class-logit maps: absent, one class favoured everywhere, or the favoured
\* class alternating by column.
PostLogits ==
    {[none |-> TRUE]}
    \cup {[none |-> FALSE, favoured |-> [q \in Pixels(PostSize) |-> c]] :
            c \in {MaxClasses - 1}}
    \cup {[none |-> FALSE, favoured |-> [q \in Pixels(PostSize) |-> q[1] % 2]]}

InitPost ==
    /\ pc = "call"
    /\ args \in [seg_map : [Pixels(PostSize) -> {0, 1}],
                 seg_map_class_logits : PostLogits,
                 scale : {2},
                 min_area_threshold : {0, 1}]
    /\ ret = [status |-> "pending"]

postprocess ==
    /\ pc = "call"
    /\ ret' \in postprocess_values(args.seg_map, PostSize,
                                   args.seg_map_class_logits, args.scale,
                                   args.min_area_threshold)
    /\ pc' = "done"
    /\ UNCHANGED args

NextPost == postprocess

SpecPost == InitPost /\ [][NextPost]_vars

\* The regions the claim counts: external, enclosing more than the threshold.
SurvivingRegions ==
    {C \in ExternalContours(args.seg_map, PostSize) :
        ContourArea2(C, PostSize) > 2 * args.min_area_threshold}

\* C10: postprocess returns exactly one markup object per external connected
\* foreground region whose enclosed area exceeds min_area_threshold and none for
\* the others, index-aligned with the boxes, all unclassified without a
\* class-logit map and all classified with one; with no surviving region it
\* returns an empty list, with or without a class-logit map.
C10_OnePerRegion ==
    pc = "done" =>
        /\ ret.status = "ok"
        /\ Len(ret.objects) = Cardinality(SurvivingRegions)
        /\ {ret.cnts[i] : i \in 1..Len(ret.cnts)} = SurvivingRegions
        /\ Len(ret.cnts) = Len(ret.objects)
        /\ \A i \in 1..Len(ret.objects) :
              /\ ret.objects[i].bbox = MinAreaBox(ret.cnts[i], args.scale)
              /\ ret.objects[i].kind =
                    IF args.seg_map_class_logits.none
                    THEN "ObjectMarkup" ELSE "ClassifiedObjectMarkup"
        /\ SurvivingRegions = {} => ret.objects = <<>>

\* C10 witness: a classified result with two surviving regions and a third
\* region dropped as noise.
C10_Witness ==
    /\ pc = "done"
    /\ ~args.seg_map_class_logits.none
    /\ Len(ret.objects) = 2
    /\ Cardinality(ExternalContours(args.seg_map, PostSize)) = 3

(***************************************************************************)
(* Round trip: build_segmentation_map, then postprocess on the built map   *)
(* at the same scale, with the default min_area_threshold and class logits *)
(* that favour each object's class inside its region and class 0 outside.  *)
(***************************************************************************)
\* size of the label map and largest scale of the round trip
RtWidth == 10
RtHeight == 4
MaxRtScale == 3

\* postprocess(..., min_area_threshold=5)
DefaultMinAreaThreshold == 5

\* Upright rectangles in image coordinates: a left and a right group of spans in
\* x, three spans in y, some too thin to pass the area filter.
RtXSpans(scale) ==
    ({0, 1} \X {2 * scale, 3 * scale, 3 * scale + 1})
    \cup ({4 * scale, 4 * scale + 1, 5 * scale}
            \X {7 * scale, 9 * scale - 1, RtWidth * scale - 1})
RtYSpans(scale) == {<<0, 2 * scale>>, <<1, 2 * scale + 1>>, <<0, scale>>}

RectBbox(xs, ys) == <<xs[1], ys[1], xs[2], ys[1], xs[2], ys[2], xs[1], ys[2]>>

RtObjects(scale) ==
    {[kind |-> "ClassifiedObjectMarkup", bbox |-> RectBbox(xs, ys),
      object_type |-> t] :
        xs \in RtXSpans(scale), ys \in RtYSpans(scale), t \in {0, MaxClasses - 1}}

\* The closed rectangles have no common point.
RectsDisjoint(a, b) ==
    \/ a[5] < b[1] \/ b[5] < a[1]
    \/ a[6] < b[2] \/ b[6] < a[2]

NonOverlapping(markup) ==
    \A i, j \in 1..Len(markup) :
        i # j => RectsDisjoint(markup[i].bbox, markup[j].bbox)

\* The pixels of a raster of the given size that a polygon covers.
RegionPixels(drawn_bbox, size) == {q \in Pixels(size) : PolygonCovers(drawn_bbox, q)}

\* The pixels each object of the markup is drawn on, from object k on.
RECURSIVE DrawnRegions(_, _, _, _)
DrawnRegions(markup, scale, size, k) ==
    IF k > Len(markup) THEN <<>>
    ELSE <<RegionPixels(proper_round_value(markup[k].bbox, scale), size)>>
         \o DrawnRegions(markup, scale, size, k + 1)

\* The class favoured at pixel q: that of the last object drawn on q, else 0.
FavouredClasses(markup, regions, size) ==
    [q \in Pixels(size) |->
        LET covering == {k \in 1..Len(markup) : q \in regions[k]}
        IN  IF covering = {} THEN 0 ELSE markup[SetMax(covering)].object_type]

RtSize == <<RtWidth, RtHeight>>

InitRoundTrip ==
    /\ pc = "call"
    /\ \E scale \in 1..MaxRtScale :
          \E markup \in SeqsUpTo(RtObjects(scale), MaxObjects) :
              /\ NonOverlapping(markup)
              /\ \E regions \in {DrawnRegions(markup, scale, RtSize, 1)} :
                    args = [w |-> RtWidth * scale, h |-> RtHeight * scale,
                            scale |-> scale, markup |-> markup,
                            for_drawing |-> FALSE,
                            seg_map_class_logits |->
                                [none |-> FALSE,
                                 favoured |-> FavouredClasses(markup, regions, RtSize)]]
    /\ ret = [status |-> "pending"]

build_label_map ==
    /\ pc = "call"
    /\ ret' = build_segmentation_map_value(args.w, args.h, args.markup,
                                           args.scale, args.for_drawing)
    /\ pc' = "built"
    /\ UNCHANGED args

postprocess_label_map ==
    /\ pc = "built"
    /\ ret.status = "ok"
    /\ ret' \in postprocess_values(ret.pixels, ret.size, args.seg_map_class_logits,
                                   args.scale, DefaultMinAreaThreshold)
    /\ pc' = "done"
    /\ UNCHANGED args

NextRoundTrip == build_label_map \/ postprocess_label_map

SpecRoundTrip == InitRoundTrip /\ [][NextRoundTrip]_vars

\* Extent <<xmin, ymin, xmax, ymax>> of a flat point sequence.
Extent(points) ==
    <<SeqMin(EvenSlice(points)), SeqMin(OddSlice(points)),
      SeqMax(EvenSlice(points)), SeqMax(OddSlice(points))>>

Within(e, f, tolerance) == \A i \in 1..4 : Abs(e[i] - f[i]) <= tolerance

Bijections(n) == {f \in [1..n -> 1..n] : \A i, j \in 1..n : i # j => f[i] # f[j]}

\* The returned objects are the originals: as many, and matched one to one with
\* equal class ids and boxes within the tolerance.
Recovered(tolerance) ==
    /\ ret.status = "ok"
    /\ Len(ret.objects) = Len(args.markup)
    /\ \E f \in Bijections(Len(args.markup)) :
          \A k \in 1..Len(args.markup) :
              /\ ret.objects[f[k]].kind = "ClassifiedObjectMarkup"
              /\ ret.objects[f[k]].object_type = args.markup[k].object_type
              /\ ret.objects[f[k]].bbox.known
              /\ Within(Extent(ret.objects[f[k]].bbox.points),
                        Extent(args.markup[k].bbox), tolerance)

DrawnExtent(k) ==
    LET e == Extent(proper_round_value(args.markup[k].bbox, args.scale))
    IN  <<Max(e[1], 0), Max(e[2], 0), Min(e[3], RtWidth - 1), Min(e[4], RtHeight - 1)>>

\* The drawn blocks keep a background pixel between each other.
RegionsApart ==
    \A i, j \in 1..Len(args.markup) :
        i # j =>
            LET e == DrawnExtent(i)
                f == DrawnExtent(j)
            IN  \/ e[3] + 1 < f[1] \/ f[3] + 1 < e[1]
                \/ e[4] + 1 < f[2] \/ f[4] + 1 < e[2]

\* Every drawn block spans more than the area threshold between the centres
\* of its rim pixels.
RegionsLarge ==
    \A k \in 1..Len(args.markup) :
        LET e == DrawnExtent(k)
        IN  (e[3] - e[1]) * (e[4] - e[2]) > DefaultMinAreaThreshold

=============================================================================
